---------------------------- MODULE Spec2Model ----------------------------
(***************************************************************************)
(* A model of the audio translation pipeline:                              *)
(*   - translate_audio, the web handler of app.py (specification Spec):    *)
(*     staging, diarization, transcription, alignment, translation,        *)
(*     synthesis, transcript save and cleanup, for requests that the       *)
(*     threaded web server runs concurrently over one working directory;   *)
(*   - the alignment loop of translate_audio on concrete diarization and   *)
(*     transcript segments (specification SpecAlign);                      *)
(*   - generate_speech of tts/eleven_labs.py (specification SpecMixer);    *)
(*   - transcribe_to_files, save_transcript_files,                         *)
(*     create_srt_from_transcript and format_transcript_txt of stt/rev.py  *)
(*     (specification SpecRev).                                            *)
(* Text handled character by character (the caption grammar) is a sequence *)
(* of one-character strings; text that is only concatenated is a string.   *)
(***************************************************************************)
EXTENDS Integers, Sequences, FiniteSets, TLC

VARIABLES
    \* ---- app.py, translate_audio
    threaded,         \* whether the server runs each request in a thread of its own
    runs,             \* per request: the locals of one call of translate_audio
    fs,               \* the files of the working directory: path -> writer (0: absent)
    temp_dir_exists,  \* whether the directory "temp" exists
    \* ---- app.py, the alignment loop
    diarization,      \* what diarization.itertracks yields: <<segment, track>> pairs
    result_segments,  \* result["segments"] of the transcription
    segments,         \* the utterance lines built so far
    matched,          \* per diarization segment done: its matching_segments list
    d_idx,            \* the diarization segment the loop is at
    text,             \* the utterance lines joined
    align_pc,         \* "loop" while the loop runs, "done" after the join
    \* ---- tts/eleven_labs.py, generate_speech
    mixer_pc,         \* where generate_speech is
    input_found,      \* whether input_file can be opened
    srt_lines,        \* the (speaker_num, text) pairs the input file holds
    voices,           \* the voices argument
    output,           \* the output argument: the path of the final mix
    speaker_lines,    \* parse_srt's result
    u_idx,            \* the speaker line the loop is at
    audio,            \* the audio of the current line, as generated
    final_mix,        \* the clips appended so far
    mixer_files,      \* "temp.mp3" and the output file: their content, or Absent
    warnings,         \* the lines skipped with a logged warning
    mixer_error,      \* the exception that ended the run, if any
    \* ---- stt/rev.py, transcribe_to_files and what it calls
    rev_pc,           \* where transcribe_to_files is
    output_format,    \* the output_format argument
    fix_transcript,   \* the fix_transcript argument
    job_status,       \* job_details.status, as last read
    statuses_seen,    \* every status the provider reported, in order
    transcript_text,  \* the transcript, as fetched (and fixed)
    lines,            \* create_srt_from_transcript: the stripped non-empty lines
    l_idx,            \* create_srt_from_transcript: the line the loop is at
    srt_entries,      \* create_srt_from_transcript: the entries built so far
    counter,          \* create_srt_from_transcript: the next index
    emitted_from,     \* per entry of srt_entries: the index in lines of its line
    rev_files,        \* the .srt and .txt files written: their content, or Absent
    rev_error         \* the exception that ended the run, if any

webVars   == <<threaded, runs, fs, temp_dir_exists>>
alignVars == <<diarization, result_segments, segments, matched, d_idx, text, align_pc>>
mixerVars == <<mixer_pc, input_found, srt_lines, voices, output, speaker_lines, u_idx,
               audio, final_mix, mixer_files, warnings, mixer_error>>
revVars   == <<rev_pc, output_format, fix_transcript, job_status, statuses_seen,
               transcript_text, lines, l_idx, srt_entries, counter, emitted_from,
               rev_files, rev_error>>
nonWebVars == <<alignVars, mixerVars, revVars>>
vars      == <<webVars, alignVars, mixerVars, revVars>>

-----------------------------------------------------------------------------
(* Bounds *)

NumRuns == 2

\* Alignment inputs: times are 0..MaxTime, at most MaxD diarization segments, at most
\* MaxT transcript segments.
MaxTime == 3
MaxD == 2
MaxT == 3

\* Mixer inputs: at most MaxUtt speaker lines of speakers 0..MaxSpeaker, at most
\* MaxVoices voices.
MaxUtt == 3
MaxSpeaker == 2
MaxVoices == 2

\* Transcription: at most MaxPolls status reads in the wait loop, transcripts of at
\* most MaxLines lines.
MaxPolls == 3
MaxLines == 2

Runs == 1..NumRuns

-----------------------------------------------------------------------------
(* app.py: translate_audio *)

\* line 44
temp_dir == "temp"

\* The extensions a client may upload; ".wav" is converted, the others are renamed.
Exts == {".wav", ".mp3", ""}

\* line 77
ConvertExts == {".m4a", ".wav", ".ogg", ".aac"}

\* line 70: os.path.join(temp_dir, f"temp_input{file_ext}"); the request is no part of it
TempOriginal(r, file_ext) == temp_dir \o "/temp_input" \o file_ext

\* line 76: os.path.join(temp_dir, "temp_audio.mp3"); the request is no part of it
TempPath(r) == temp_dir \o "/temp_audio.mp3"

TempPaths == {TempOriginal(r, e) : r \in Runs, e \in Exts} \cup {TempPath(r) : r \in Runs}

\* The stages of a run, in the order of the handler's code.
StageOrder == <<"staged", "transcribed", "aligned", "translated", "synthesized", "cleaned">>

\* lines 44-47: the locals at the start of a POST request
NewRun == [pc |-> "uploaded", file_ext |-> "", temp_files |-> <<>>, need_mkdir |-> FALSE,
           stages |-> <<>>, flashed |-> <<>>, text_empty |-> FALSE, downloads |-> {},
           c_idx |-> 1, cleanup_errors |-> 0, created |-> {}, foreign |-> {}]

\* app.run(debug=True), line 173: the development server is threaded unless it is
\* started otherwise, and then serves one request after the other.
WebInit(is_threaded) ==
    /\ threaded = is_threaded
    /\ runs = [r \in Runs |-> NewRun]
    /\ fs = [p \in TempPaths |-> 0]
    /\ temp_dir_exists \in BOOLEAN

WebIdle ==
    /\ threaded = FALSE
    /\ runs = [r \in Runs |-> [NewRun EXCEPT !.pc = "none"]]
    /\ fs = [p \in TempPaths |-> 0]
    /\ temp_dir_exists = FALSE

Terminal(run) == run.pc \in {"done", "failed"}

\* A request's step may be taken: any time in a threaded server, else only once the
\* requests before it are over.
Scheduled(r) == threaded \/ \A q \in 1..(r - 1) : Terminal(runs[q])

Raise_LogsAndGoesOn(run) == [run EXCEPT !.flashed = @ \o <<"error">>]

\* lines 165-168: the handler's except clause: one error message, and the run is over.
\* Nothing is removed here.
Raise(run) == [run EXCEPT !.pc = "failed", !.flashed = @ \o <<"error">>]

\* A stage that completed is recorded (the history the stage claims are about).
Reached(run, stage) == [run EXCEPT !.stages = @ \o <<stage>>]

\* The run r reads, overwrites, renames or removes the file at path p, as it is in f:
\* noted when the file there was written by another run.
Touch(r, run, f, p) ==
    IF f[p] \notin {0, r} THEN [run EXCEPT !.foreign = @ \cup {p}] ELSE run

\* lines 50-60: the upload and the language selections are read from the request
GetUpload(r) ==
    /\ runs[r].pc = "uploaded"
    /\ Scheduled(r)
    /\ UNCHANGED <<threaded, nonWebVars>>
    /\ \E has_file \in BOOLEAN, ext \in Exts :
          runs' = [runs EXCEPT ![r] =
                      IF has_file
                      THEN [@ EXCEPT !.pc = "check_dir", !.file_ext = ext]
                      \* lines 56-58: flash("No audio file uploaded", "error") and return
                      ELSE [@ EXCEPT !.pc = "failed", !.flashed = @ \o <<"error">>]]
    /\ UNCHANGED <<fs, temp_dir_exists>>

\* line 63: if not os.path.exists(temp_dir)
CheckTempDir(r) ==
    /\ runs[r].pc = "check_dir"
    /\ Scheduled(r)
    /\ UNCHANGED <<threaded, nonWebVars>>
    /\ runs' = [runs EXCEPT ![r] = [@ EXCEPT !.need_mkdir = ~temp_dir_exists,
                                            !.pc = IF temp_dir_exists THEN "save_upload"
                                                   ELSE "make_dir"]]
    /\ UNCHANGED <<fs, temp_dir_exists>>

\* line 64: os.makedirs(temp_dir), which raises when the directory exists by now
MakeTempDir(r) ==
    /\ runs[r].pc = "make_dir"
    /\ Scheduled(r)
    /\ UNCHANGED <<threaded, nonWebVars>>
    /\ IF temp_dir_exists
       THEN /\ runs' = [runs EXCEPT ![r] = Raise(@)]
            /\ UNCHANGED temp_dir_exists
       ELSE /\ runs' = [runs EXCEPT ![r] = [@ EXCEPT !.pc = "save_upload"]]
            /\ temp_dir_exists' = TRUE
    /\ UNCHANGED fs

\* lines 67-72: audio_file.save(temp_original); temp_files.append(temp_original).
\* The save may fail before the file is created or after part of it is written.
SaveUpload(r) ==
    /\ runs[r].pc = "save_upload"
    /\ Scheduled(r)
    /\ UNCHANGED <<threaded, nonWebVars>>
    /\ LET temp_original == TempOriginal(r, runs[r].file_ext) IN
       \E outcome \in {"ok", "fail_before", "fail_partial"} :
          IF ~temp_dir_exists \/ outcome = "fail_before"
          THEN /\ runs' = [runs EXCEPT ![r] = Raise(@)]
               /\ UNCHANGED fs
          ELSE /\ fs' = [fs EXCEPT ![temp_original] = r]
               /\ runs' = [runs EXCEPT ![r] =
                     LET wrote == [Touch(r, @, fs, temp_original)
                                      EXCEPT !.created = @ \cup {temp_original}] IN
                     IF outcome = "ok"
                     THEN [wrote EXCEPT !.temp_files = Append(@, temp_original),
                                        !.pc = "convert"]
                     ELSE Raise(wrote)]
    /\ UNCHANGED temp_dir_exists

\* line 83: temp_files.append(temp_path), once temp_path is written by the run
Staged(r, run, f) ==
    [Reached(Touch(r, run, f, TempPath(r)), "staged")
        EXCEPT !.temp_files = Append(@, TempPath(r)),
               !.created = @ \cup {TempPath(r)},
               !.pc = "load_models"]

\* lines 74-79, 82-83: the upload is read for the conversion (line 79:
\* AudioSegment.from_file(temp_original)), or renamed to temp_audio.mp3 (line 82)
ConvertOrRename(r) ==
    /\ runs[r].pc = "convert"
    /\ Scheduled(r)
    /\ UNCHANGED <<threaded, nonWebVars>>
    /\ LET temp_original == TempOriginal(r, runs[r].file_ext)
           temp_path == TempPath(r)
           read == Touch(r, runs[r], fs, temp_original)
       IN
       IF fs[temp_original] = 0 \/ ~temp_dir_exists
       THEN \* AudioSegment.from_file / os.rename: the source is gone
            /\ runs' = [runs EXCEPT ![r] = Raise(@)]
            /\ UNCHANGED fs
       ELSE IF runs[r].file_ext \in ConvertExts
       THEN \* line 79: the audio is decoded into memory
            /\ \E ok \in BOOLEAN :
                  runs' = [runs EXCEPT ![r] =
                              IF ok THEN [read EXCEPT !.pc = "convert_export"]
                              ELSE Raise(read)]
            /\ UNCHANGED fs
       ELSE \* line 82
            /\ fs' = [fs EXCEPT ![temp_original] = 0, ![temp_path] = fs[temp_original]]
            /\ runs' = [runs EXCEPT ![r] = Staged(r, read, fs)]
    /\ UNCHANGED temp_dir_exists

\* lines 80, 83: audio.export(temp_path, format="mp3") writes the audio held in
\* memory. The export may fail before the file is created or after part of it is
\* written.
ConvertExport(r) ==
    /\ runs[r].pc = "convert_export"
    /\ Scheduled(r)
    /\ UNCHANGED <<threaded, nonWebVars>>
    /\ LET temp_path == TempPath(r) IN
       \E outcome \in {"ok", "fail_before", "fail_partial"} :
          IF ~temp_dir_exists \/ outcome = "fail_before"
          THEN /\ runs' = [runs EXCEPT ![r] = Raise(@)]
               /\ UNCHANGED fs
          ELSE /\ fs' = [fs EXCEPT ![temp_path] = r]
               /\ runs' = [runs EXCEPT ![r] =
                     IF outcome = "ok"
                     THEN Staged(r, @, fs)
                     ELSE Raise([Touch(r, @, fs, temp_path)
                                    EXCEPT !.created = @ \cup {temp_path}])]
    /\ UNCHANGED temp_dir_exists

\* A collaborator call that reads temp_path: it fails when the file is gone, and may
\* fail on its own.
ReadsTempPath(r, next_pc, stage) ==
    LET temp_path == TempPath(r)
        read == Touch(r, runs[r], fs, temp_path)
    IN
    /\ \E ok \in BOOLEAN :
          runs' = [runs EXCEPT ![r] =
                      IF fs[temp_path] = 0 \/ ~ok THEN Raise(read)
                      ELSE IF stage = "" THEN [read EXCEPT !.pc = next_pc]
                      ELSE [Reached(read, stage) EXCEPT !.pc = next_pc]]
    /\ UNCHANGED <<fs, temp_dir_exists>>

\* lines 85-94: whisper.load_model(...) and Pipeline.from_pretrained(...); neither
\* opens temp_path
LoadModels(r) ==
    /\ runs[r].pc = "load_models"
    /\ Scheduled(r)
    /\ UNCHANGED <<threaded, nonWebVars>>
    /\ \E ok \in BOOLEAN :
          runs' = [runs EXCEPT ![r] = IF ok THEN [@ EXCEPT !.pc = "diarize"] ELSE Raise(@)]
    /\ UNCHANGED <<fs, temp_dir_exists>>

\* lines 96-97: the diarization pipeline runs on temp_path
Diarize(r) ==
    /\ runs[r].pc = "diarize"
    /\ Scheduled(r)
    /\ UNCHANGED <<threaded, nonWebVars>>
    /\ ReadsTempPath(r, "transcribe", "")

\* line 100: model.transcribe(temp_path, ...)
Transcribe(r) ==
    /\ runs[r].pc = "transcribe"
    /\ Scheduled(r)
    /\ UNCHANGED <<threaded, nonWebVars>>
    /\ ReadsTempPath(r, "align", "transcribed")

\* lines 102-118: the alignment loop (in detail: AlignTrack, AlignJoin); it calls no
\* collaborator and has no failing exit, whether or not it built any utterance.
Align(r) ==
    /\ runs[r].pc = "align"
    /\ Scheduled(r)
    /\ UNCHANGED <<threaded, nonWebVars>>
    /\ \E empty \in BOOLEAN :
          runs' = [runs EXCEPT ![r] = [Reached(@, "aligned") EXCEPT !.text_empty = empty,
                                                                   !.pc = "translate"]]
    /\ UNCHANGED <<fs, temp_dir_exists>>

\* A collaborator call on data in memory. One that writes a file in the downloads
\* directory opens it before it writes: a failure may come before the file is
\* created, or after, and then leaves the file there, empty or in part.
Calls(r, next_pc, stage, written) ==
    /\ \E ok \in BOOLEAN, left \in SUBSET written :
          runs' = [runs EXCEPT ![r] =
                      IF ~ok THEN Raise([@ EXCEPT !.downloads = @ \cup left])
                      ELSE LET done == IF stage = "" THEN @ ELSE Reached(@, stage) IN
                           [done EXCEPT !.pc = next_pc, !.downloads = @ \cup written]]
    /\ UNCHANGED <<fs, temp_dir_exists>>

\* lines 120-131: client.chat.completions.create(...)
Translate(r) ==
    /\ runs[r].pc = "translate"
    /\ Scheduled(r)
    /\ UNCHANGED <<threaded, nonWebVars>>
    /\ Calls(r, "synthesize", "translated", {})

\* lines 133-139: gTTS(...).save(output_path), in the downloads directory
Synthesize(r) ==
    /\ runs[r].pc = "synthesize"
    /\ Scheduled(r)
    /\ UNCHANGED <<threaded, nonWebVars>>
    /\ Calls(r, "save_srt", "synthesized", {"translated_audio"})

\* lines 141-145: save_srt(result["segments"], srt_path)
SaveTranscript(r) ==
    /\ runs[r].pc = "save_srt"
    /\ Scheduled(r)
    /\ UNCHANGED <<threaded, nonWebVars>>
    /\ Calls(r, "cleanup", "", {"transcript"})

LogRemovalError_Escalates(run) ==
    [run EXCEPT !.cleanup_errors = @ + 1, !.pc = "failed", !.flashed = @ \o <<"error">>]

\* lines 153-154, 159-160: the except clauses inside the cleanup: logger.error(...),
\* and the handler goes on
LogRemovalError(run) == [run EXCEPT !.cleanup_errors = @ + 1]

\* lines 149-151: one iteration of the loop over temp_files begins:
\* os.path.exists(temp_file)
CleanupFile(r) ==
    /\ runs[r].pc = "cleanup"
    /\ Scheduled(r)
    /\ UNCHANGED <<threaded, nonWebVars>>
    /\ runs[r].c_idx <= Len(runs[r].temp_files)
    /\ LET temp_file == runs[r].temp_files[runs[r].c_idx] IN
       runs' = [runs EXCEPT ![r] =
                   IF fs[temp_file] # 0 THEN [@ EXCEPT !.pc = "cleanup_remove"]
                   ELSE [@ EXCEPT !.c_idx = @ + 1]]
    /\ UNCHANGED <<fs, temp_dir_exists>>

\* lines 152-154: os.remove(temp_file), which raises when the file is gone by now;
\* an error is logged and the loop goes on
CleanupRemove(r) ==
    /\ runs[r].pc = "cleanup_remove"
    /\ Scheduled(r)
    /\ UNCHANGED <<threaded, nonWebVars>>
    /\ LET temp_file == runs[r].temp_files[runs[r].c_idx]
           next == [runs[r] EXCEPT !.c_idx = @ + 1, !.pc = "cleanup"]
       IN
       IF fs[temp_file] = 0
       THEN /\ runs' = [runs EXCEPT ![r] = LogRemovalError(next)]
            /\ UNCHANGED fs
       ELSE \E ok \in BOOLEAN :
               IF ok
               THEN /\ fs' = [fs EXCEPT ![temp_file] = 0]
                    /\ runs' = [runs EXCEPT ![r] = Touch(r, next, fs, temp_file)]
               ELSE /\ runs' = [runs EXCEPT ![r] = LogRemovalError(next)]
                    /\ UNCHANGED fs
    /\ UNCHANGED temp_dir_exists

\* lines 162-163: the run reports success
Finished(run) ==
    [Reached(run, "cleaned") EXCEPT !.pc = "done", !.flashed = @ \o <<"success">>]

\* line 157, first operand: os.path.exists(temp_dir), after the loop
TempDirExists(r) ==
    /\ runs[r].pc = "cleanup"
    /\ Scheduled(r)
    /\ UNCHANGED <<threaded, nonWebVars>>
    /\ runs[r].c_idx > Len(runs[r].temp_files)
    /\ runs' = [runs EXCEPT ![r] =
                   IF temp_dir_exists THEN [@ EXCEPT !.pc = "listdir"] ELSE Finished(@)]
    /\ UNCHANGED <<fs, temp_dir_exists>>

\* line 157, second operand: not os.listdir(temp_dir), which raises when the
\* directory is gone by now (logged at line 160)
ListTempDir(r) ==
    /\ runs[r].pc = "listdir"
    /\ Scheduled(r)
    /\ UNCHANGED <<threaded, nonWebVars>>
    /\ runs' = [runs EXCEPT ![r] =
                   IF ~temp_dir_exists THEN LogRemovalError(Finished(@))
                   ELSE IF \A p \in TempPaths : fs[p] = 0 THEN [@ EXCEPT !.pc = "rmdir"]
                   ELSE Finished(@)]
    /\ UNCHANGED <<fs, temp_dir_exists>>

\* lines 158-163: os.rmdir(temp_dir), which raises when the directory is gone or no
\* longer empty by now, or on its own (logged at line 160); the run reports success
RemoveTempDir(r) ==
    /\ runs[r].pc = "rmdir"
    /\ Scheduled(r)
    /\ UNCHANGED <<threaded, nonWebVars>>
    /\ IF temp_dir_exists /\ \A p \in TempPaths : fs[p] = 0
       THEN \E ok \in BOOLEAN :
               IF ok
               THEN /\ temp_dir_exists' = FALSE
                    /\ runs' = [runs EXCEPT ![r] = Finished(@)]
               ELSE /\ runs' = [runs EXCEPT ![r] = LogRemovalError(Finished(@))]
                    /\ UNCHANGED temp_dir_exists
       ELSE /\ runs' = [runs EXCEPT ![r] = LogRemovalError(Finished(@))]
            /\ UNCHANGED temp_dir_exists
    /\ UNCHANGED fs

-----------------------------------------------------------------------------
(* app.py: the alignment loop of translate_audio, lines 102-118 *)

Times == 0..MaxTime

\* A diarization segment has a positive duration; a transcript segment may be empty.
Windows == {[start |-> a, end |-> b] : a \in Times, b \in Times}

DiarizationSegments == {w \in Windows : w.start < w.end}

\* The speaker labels the diarization reports.
Tracks == {0, 1}

\* The text of the i-th transcript segment: the loop never looks into it.
Word(i) == "w" \o ToString(i)

\* Both collaborators report their segments in time order: each starts no earlier
\* than the one before it ends.
InTimeOrder(windows) ==
    \A i \in 1..(Len(windows) - 1) : windows[i].end <= windows[i + 1].start

\* line 104: each item of the diarization is a (segment, track) pair.
TrackWindows(d) == [i \in DOMAIN d |-> d[i][1]]

DiarizationInputs ==
    UNION {{d \in [1..n -> DiarizationSegments \X Tracks] : InTimeOrder(TrackWindows(d))}
           : n \in 0..MaxD}

TranscriptInputs ==
    UNION {{[i \in 1..n |-> [start |-> w[i].start, end |-> w[i].end, text |-> Word(i)]]
            : w \in {v \in [1..n -> {x \in Windows : x.start <= x.end}]
                       : InTimeOrder(v)}}
           : n \in 0..MaxT}

AlignInit ==
    /\ diarization \in DiarizationInputs
    /\ result_segments \in TranscriptInputs
    /\ segments = <<>>
    /\ matched = <<>>
    /\ d_idx = 1
    /\ text = ""
    /\ align_pc = "loop"

AlignIdle ==
    /\ diarization = <<>>
    /\ result_segments = <<>>
    /\ segments = <<>>
    /\ matched = <<>>
    /\ d_idx = 0
    /\ text = ""
    /\ align_pc = "none"

Overlaps_ClosedWindow(segment, trans_segment) ==
    \/ (trans_segment.start >= segment.start /\ trans_segment.start <= segment.end)
    \/ (trans_segment.end >= segment.start /\ trans_segment.end <= segment.end)

\* lines 108-112: the overlap test
Overlaps(segment, trans_segment) ==
    \/ (trans_segment.start >= segment.start /\ trans_segment.start < segment.end)
    \/ (trans_segment.end > segment.start /\ trans_segment.end <= segment.end)

\* lines 106-113: the scan of result["segments"] for one diarization segment, from
\* the i-th transcript segment on
RECURSIVE MatchingSegments(_, _, _)
MatchingSegments(segment, trans, i) ==
    IF i > Len(trans) THEN <<>>
    ELSE (IF Overlaps(segment, trans[i]) THEN <<trans[i].text>> ELSE <<>>)
         \o MatchingSegments(segment, trans, i + 1)

\* sep.join(strs) for strings
RECURSIVE JoinStr(_, _)
JoinStr(strs, sep) ==
    IF strs = <<>> THEN ""
    ELSE IF Len(strs) = 1 THEN strs[1]
    ELSE strs[1] \o sep \o JoinStr(Tail(strs), sep)

AddUtterance_EvenIfEmpty(segs, track, matching_segments) ==
    Append(segs, "Speaker " \o ToString(track) \o ": " \o JoinStr(matching_segments, " "))

\* lines 115-116: if matching_segments: segments.append(f"Speaker {track}: {' '.join(...)}")
AddUtterance(segs, track, matching_segments) ==
    IF matching_segments # <<>>
    THEN Append(segs, "Speaker " \o ToString(track) \o ": "
                          \o JoinStr(matching_segments, " "))
    ELSE segs

\* lines 104-116: one iteration of the loop over diarization.itertracks
AlignTrack ==
    /\ align_pc = "loop"
    /\ d_idx <= Len(diarization)
    /\ LET segment == diarization[d_idx][1]
           track == diarization[d_idx][2]
           matching_segments == MatchingSegments(segment, result_segments, 1)
       IN
       /\ segments' = AddUtterance(segments, track, matching_segments)
       /\ matched' = Append(matched, matching_segments)
    /\ d_idx' = d_idx + 1
    /\ UNCHANGED <<diarization, result_segments, text, align_pc>>
    /\ UNCHANGED <<webVars, mixerVars, revVars>>

\* line 118: text = "\n".join(segments)
AlignJoin ==
    /\ align_pc = "loop"
    /\ d_idx > Len(diarization)
    /\ text' = JoinStr(segments, "\n")
    /\ align_pc' = "done"
    /\ UNCHANGED <<diarization, result_segments, segments, matched, d_idx>>
    /\ UNCHANGED <<webVars, mixerVars, revVars>>

-----------------------------------------------------------------------------
(* tts/eleven_labs.py: generate_speech *)

Absent == <<"absent">>

\* line 83, line 88
TempClip == "temp.mp3"

\* line 106: the default of --output
DefaultOutput == "output.mp3"

\* lines 58, 92: generate_speech writes the mix to whatever path it is given, which
\* may be the path the loop uses for its clips
OutputPaths == {DefaultOutput, TempClip}

\* The text of the i-th speaker line: the loop only passes it on.
LineText(i) == "line" \o ToString(i)

SpeakerLineInputs ==
    UNION {{[i \in 1..n |-> <<sp[i], LineText(i)>>] : sp \in [1..n -> 0..MaxSpeaker]}
           : n \in 0..MaxUtt}

VoiceInputs == {[i \in 1..n |-> "voice" \o ToString(i)] : n \in 0..MaxVoices}

MixerInit ==
    /\ mixer_pc = "parse"
    /\ input_found \in BOOLEAN
    /\ srt_lines \in SpeakerLineInputs
    /\ voices \in VoiceInputs
    /\ output \in OutputPaths
    /\ speaker_lines = <<>>
    /\ u_idx = 0
    /\ audio = Absent
    /\ final_mix = <<>>
    /\ mixer_files = [f \in {TempClip, output} |-> Absent]
    /\ warnings = <<>>
    /\ mixer_error = ""

MixerIdle ==
    /\ mixer_pc = "none"
    /\ input_found = FALSE
    /\ srt_lines = <<>>
    /\ voices = <<>>
    /\ output = DefaultOutput
    /\ speaker_lines = <<>>
    /\ u_idx = 0
    /\ audio = Absent
    /\ final_mix = <<>>
    /\ mixer_files = [f \in {TempClip, DefaultOutput} |-> Absent]
    /\ warnings = <<>>
    /\ mixer_error = ""

\* What the synthesis collaborator returns for a text and a voice.
Synthesized(line_text, voice) == [text |-> line_text, voice |-> voice]

NoVoice_OffByOne(speaker_num, vs) == speaker_num > Len(vs)

\* line 75: if speaker_num >= len(voices)
NoVoice(speaker_num, vs) == speaker_num >= Len(vs)

\* lines 95-100: both except clauses log the error and exit(1)
MixerRaise(exception) ==
    /\ mixer_pc' = "exit1"
    /\ mixer_error' = exception

\* lines 41-56, 62: parse_srt(input_file). open() raises FileNotFoundError (caught
\* at line 95) when there is no such file; on a file that is there, open() or read()
\* may raise another OSError or a UnicodeDecodeError (caught at line 98).
MixerParse ==
    /\ mixer_pc = "parse"
    /\ IF input_found
       THEN \E outcome \in {"ok", "OSError", "UnicodeDecodeError"} :
               IF outcome = "ok"
               THEN /\ speaker_lines' = srt_lines
                    /\ mixer_pc' = "setup"
                    /\ UNCHANGED mixer_error
               ELSE /\ MixerRaise(outcome)
                    /\ UNCHANGED speaker_lines
       ELSE /\ MixerRaise("FileNotFoundError")
            /\ UNCHANGED speaker_lines
    /\ UNCHANGED <<input_found, srt_lines, voices, output, u_idx, audio, final_mix, mixer_files,
                   warnings>>
    /\ UNCHANGED <<webVars, alignVars, revVars>>

\* lines 64-71: one ElevenLabs client per voice and the empty mix; an exception of
\* either is caught at line 98
MixerSetup ==
    /\ mixer_pc = "setup"
    /\ \E ok \in BOOLEAN :
          IF ok
          THEN /\ u_idx' = 1
               /\ mixer_pc' = "loop"
               /\ UNCHANGED mixer_error
          ELSE /\ MixerRaise("SetupError")
               /\ UNCHANGED u_idx
    /\ UNCHANGED <<input_found, srt_lines, voices, output, speaker_lines, audio, final_mix,
                   mixer_files, warnings>>
    /\ UNCHANGED <<webVars, alignVars, revVars>>

\* lines 74-77: a speaker line whose speaker has no voice is skipped with a warning
MixerSkip ==
    /\ mixer_pc = "loop"
    /\ u_idx <= Len(speaker_lines)
    /\ NoVoice(speaker_lines[u_idx][1], voices)
    /\ warnings' = Append(warnings, u_idx)
    /\ u_idx' = u_idx + 1
    /\ UNCHANGED <<mixer_pc, input_found, srt_lines, voices, output, speaker_lines, audio, final_mix,
                   mixer_files, mixer_error>>
    /\ UNCHANGED <<webVars, alignVars, revVars>>

\* lines 79-80: voice_services[speaker_num].generate(text=text, voice=voices[speaker_num])
MixerGenerate ==
    /\ mixer_pc = "loop"
    /\ u_idx <= Len(speaker_lines)
    /\ ~NoVoice(speaker_lines[u_idx][1], voices)
    /\ LET speaker_num == speaker_lines[u_idx][1]
           line_text == speaker_lines[u_idx][2]
       IN
       IF speaker_num + 1 \notin DOMAIN voices
       THEN /\ MixerRaise("IndexError")
            /\ UNCHANGED audio
       ELSE \E ok \in BOOLEAN :
               IF ok
               THEN /\ audio' = Synthesized(line_text, voices[speaker_num + 1])
                    /\ mixer_pc' = "write_temp"
                    /\ UNCHANGED mixer_error
               ELSE /\ MixerRaise("SynthesisError")
                    /\ UNCHANGED audio
    /\ UNCHANGED <<input_found, srt_lines, voices, output, speaker_lines, u_idx, final_mix,
                   mixer_files, warnings>>
    /\ UNCHANGED <<webVars, alignVars, revVars>>

\* lines 82-85: the chunks are written to temp.mp3. When open() fails (line 83) the
\* file is left as it was, and the OSError is a FileNotFoundError (caught at line 95)
\* or another one (caught at line 98); a failure while the chunks arrive or are
\* written (lines 84-85) leaves a partial file.
MixerWriteTemp ==
    /\ mixer_pc = "write_temp"
    /\ \E outcome \in {"ok", "fail_before", "fail_partial"} :
          CASE outcome = "ok" ->
                  /\ mixer_files' = [mixer_files EXCEPT ![TempClip] = audio]
                  /\ mixer_pc' = "read_temp"
                  /\ UNCHANGED mixer_error
            [] outcome = "fail_before" ->
                  /\ UNCHANGED mixer_files
                  /\ \E exception \in {"FileNotFoundError", "OSError"} : MixerRaise(exception)
            [] outcome = "fail_partial" ->
                  /\ mixer_files' = [mixer_files EXCEPT ![TempClip] = <<"partial">>]
                  /\ \E exception \in {"SynthesisError", "OSError"} : MixerRaise(exception)
    /\ UNCHANGED <<input_found, srt_lines, voices, output, speaker_lines, u_idx, audio, final_mix,
                   warnings>>
    /\ UNCHANGED <<webVars, alignVars, revVars>>

\* lines 87-89: final_mix += AudioSegment.from_mp3("temp.mp3")
MixerAppend ==
    /\ mixer_pc = "read_temp"
    /\ \E ok \in BOOLEAN :
          IF ok
          THEN /\ final_mix' = Append(final_mix, mixer_files[TempClip])
               /\ u_idx' = u_idx + 1
               /\ mixer_pc' = "loop"
               /\ UNCHANGED mixer_error
          ELSE /\ MixerRaise("DecodeError")
               /\ UNCHANGED <<final_mix, u_idx>>
    /\ UNCHANGED <<input_found, srt_lines, voices, output, speaker_lines, audio, mixer_files,
                   warnings>>
    /\ UNCHANGED <<webVars, alignVars, revVars>>

\* lines 91-93: final_mix.export(output, format="mp3"), after the loop. The export
\* may fail before the output file is created or after part of it is written.
MixerExport ==
    /\ mixer_pc = "loop"
    /\ u_idx > Len(speaker_lines)
    /\ \E outcome \in {"ok", "fail_before", "fail_partial"} :
          CASE outcome = "ok" ->
                  /\ mixer_files' = [mixer_files EXCEPT ![output] = final_mix]
                  /\ mixer_pc' = "done"
                  /\ UNCHANGED mixer_error
            [] outcome = "fail_before" ->
                  /\ UNCHANGED mixer_files
                  /\ MixerRaise("ExportError")
            [] outcome = "fail_partial" ->
                  /\ mixer_files' = [mixer_files EXCEPT ![output] = <<"partial">>]
                  /\ MixerRaise("ExportError")
    /\ UNCHANGED <<input_found, srt_lines, voices, output, speaker_lines, u_idx, audio, final_mix,
                   warnings>>
    /\ UNCHANGED <<webVars, alignVars, revVars>>

-----------------------------------------------------------------------------
(* Text as a sequence of characters, and the str operations of stt/rev.py *)

NL == "\n"

\* The whitespace str.strip() removes, among the characters of the model's texts.
IsSpace(c) == c \in {" ", "\t", NL}

RECURSIVE LStrip(_)
LStrip(str) == IF str # <<>> /\ IsSpace(Head(str)) THEN LStrip(Tail(str)) ELSE str

RECURSIVE RStrip(_)
RStrip(str) ==
    IF str # <<>> /\ IsSpace(str[Len(str)]) THEN RStrip(SubSeq(str, 1, Len(str) - 1)) ELSE str

\* str.strip()
Strip(str) == RStrip(LStrip(str))

\* str.find(sep) + 1: the first place sep occurs in str, 0 when it does not
Find(str, sep) ==
    LET at == {i \in 1..(Len(str) - Len(sep) + 1) : SubSeq(str, i, i + Len(sep) - 1) = sep}
    IN IF at = {} THEN 0 ELSE CHOOSE i \in at : \A j \in at : i <= j

\* str.split(sep, maxsplit): the occurrences of sep are taken from the left, and
\* maxsplit = -1 takes them all
RECURSIVE Split(_, _, _)
Split(str, sep, maxsplit) ==
    LET i == Find(str, sep) IN
    IF i = 0 \/ maxsplit = 0 THEN <<str>>
    ELSE <<SubSeq(str, 1, i - 1)>>
         \o Split(SubSeq(str, i + Len(sep), Len(str)), sep, maxsplit - 1)

\* sep.join(strs)
RECURSIVE Join(_, _)
Join(strs, sep) ==
    IF strs = <<>> THEN <<>>
    ELSE IF Len(strs) = 1 THEN strs[1]
    ELSE strs[1] \o sep \o Join(Tail(strs), sep)

\* str.replace(a, b) for single characters
Replace(str, a, b) == [i \in 1..Len(str) |-> IF str[i] = a THEN b ELSE str[i]]

Digits == <<"0", "1", "2", "3", "4", "5", "6", "7", "8", "9">>

IsDigit(c) == \E d \in 1..10 : Digits[d] = c

DigitValue(c) == (CHOOSE d \in 1..10 : Digits[d] = c) - 1

\* str(n) for n >= 0
RECURSIVE IntToStr(_)
IntToStr(n) == IF n < 10 THEN <<Digits[n + 1]>> ELSE IntToStr(n \div 10) \o <<Digits[(n % 10) + 1]>>

\* The number a string of digits denotes (0 for the empty string).
RECURSIVE DigitsValue(_)
DigitsValue(str) ==
    IF str = <<>> THEN 0
    ELSE 10 * DigitsValue(SubSeq(str, 1, Len(str) - 1)) + DigitValue(str[Len(str)])

\* Whether float(str) returns: for a text of digits, points, blanks, colons and the
\* letters of the model's texts (no sign, exponent or underscore), float accepts a
\* blank-trimmed run of digits with at most one point and at least one digit.
IsFloatLiteral(str) ==
    LET t == Strip(str) IN
    /\ \A i \in 1..Len(t) : IsDigit(t[i]) \/ t[i] = "."
    /\ \E i \in 1..Len(t) : IsDigit(t[i])
    /\ Cardinality({i \in 1..Len(t) : t[i] = "."}) <= 1

\* float(str) in thousandths, for a literal of at most three decimals
FloatMillis(str) ==
    LET t == Strip(str)
        dot == Find(t, <<".">>)
        whole == IF dot = 0 THEN t ELSE SubSeq(t, 1, dot - 1)
        decimals == IF dot = 0 THEN <<>> ELSE SubSeq(t, dot + 1, Len(t))
        padded == SubSeq(decimals \o <<"0", "0", "0">>, 1, 3)
    IN 1000 * DigitsValue(whole) + DigitsValue(padded)

\* f"{x:.3f}" for x >= 0 given in thousandths: no padding of the whole part
Format3f(millis) ==
    LET frac == millis % 1000 IN
    IntToStr(millis \div 1000) \o <<".">>
        \o <<Digits[(frac \div 100) + 1], Digits[((frac \div 10) % 10) + 1], Digits[(frac % 10) + 1]>>

-----------------------------------------------------------------------------
(* stt/rev.py: create_srt_from_transcript and format_transcript_txt *)

\* lines 78, 99: the four-space field delimiter
Delimiter == <<" ", " ", " ", " ">>

\* line 92
StrippedLines(transcript) ==
    LET raw == Split(transcript, <<NL>>, -1)
        kept == SelectSeq(raw, LAMBDA l : Strip(l) # <<>>)
    IN [i \in 1..Len(kept) |-> Strip(kept[i])]

\* lines 98-119: what one iteration of the loop does with a line, given the counter:
\* the line is passed over, float(seconds) raises, or an entry is built
SrtLine(line, count) ==
    LET parts == Split(line, Delimiter, -1) IN
    IF Len(parts) # 3 THEN [kind |-> "continue"]
    ELSE LET speaker == parts[1]
             timestamp == parts[2]
             content == parts[3]
             time_parts == Split(Strip(timestamp), <<":">>, -1)
         IN
         IF Len(time_parts) # 3 THEN [kind |-> "continue"]
         ELSE LET hours == time_parts[1]
                  minutes == time_parts[2]
                  seconds == time_parts[3]
                  start_time == hours \o <<":">> \o minutes \o <<":">> \o seconds
                                    \o <<",", "0", "0", "0">>
              IN
              IF ~IsFloatLiteral(seconds) THEN [kind |-> "ValueError"]
              ELSE LET end_time == Replace(hours \o <<":">> \o minutes \o <<":">>
                                               \o Format3f(FloatMillis(seconds) + 5000),
                                           ".", ",")
                   IN [kind |-> "entry",
                       entry |-> IntToStr(count) \o <<NL>> \o start_time
                                    \o <<" ", "-", "-", ">", " ">> \o end_time \o <<NL>>
                                    \o speaker \o <<":", " ">> \o content \o <<NL>>]

CounterAfter_EveryLine(count, kind) == count + 1

\* lines 101, 108, 119: the counter moves on only past a line that gave an entry
CounterAfter(count, kind) == IF kind = "entry" THEN count + 1 ELSE count

\* lines 75-87: format_transcript_txt, from the i-th raw line on
RECURSIVE FormattedText(_, _)
FormattedText(raw, i) ==
    IF i > Len(raw) THEN <<>>
    ELSE LET line == raw[i]
             parts == Split(line, Delimiter, 2)
         IN (IF Strip(line) # <<>> /\ Len(parts) = 3
             THEN <<parts[1], parts[2], parts[3], <<>> >>
             ELSE <<>>)
            \o FormattedText(raw, i + 1)

\* lines 64-87
format_transcript_txt(transcript) ==
    Join(FormattedText(Split(transcript, <<NL>>, -1), 1), <<NL>>)

-----------------------------------------------------------------------------
(* stt/rev.py: transcribe_to_files and save_transcript_files *)

\* What the provider may report: pending, inProgress, succeeded, failed, under the
\* names the code compares with (lines 152, 158).
JobStatuses == {"pending", "in_progress", "transcribed", "failed"}

\* The lines a transcript is made of.
Sp == <<"S">>
Hi == <<"h", "i">>
CaptionLine(speaker, timestamp, content) ==
    speaker \o Delimiter \o timestamp \o Delimiter \o content
Stamp(h, m, sec) == h \o <<":">> \o m \o <<":">> \o sec
ZZ == <<"0", "0">>

LinePool ==
    { CaptionLine(Sp, Stamp(ZZ, ZZ, <<"0", "5">>), Hi),        \* well formed
      CaptionLine(Sp, Stamp(ZZ, ZZ, <<"0", "0">>), Hi),        \* well formed, second 00
      CaptionLine(Sp, Stamp(ZZ, <<"5", "9">>, <<"5", "7">>), Hi),  \* well formed, second 57
      CaptionLine(Sp, ZZ \o <<":">> \o <<"0", "5">>, Hi),      \* two timestamp parts
      CaptionLine(Sp, Stamp(ZZ, ZZ, <<"x", "x">>), Hi),        \* non-numeric seconds
      CaptionLine(Sp, Stamp(<<"x", "x">>, ZZ, <<"0", "5">>), Hi),  \* non-numeric hours
      CaptionLine(Sp, Stamp(ZZ, ZZ, <<"0", "5", ".", "5">>), Hi),  \* fractional seconds
      <<"h", "d", "r">>,                                       \* one field
      Sp \o Delimiter \o Stamp(ZZ, ZZ, <<"0", "5">>),          \* two fields
      CaptionLine(Sp, Stamp(ZZ, ZZ, <<"0", "5">>), <<"a">> \o Delimiter \o <<"b">>),  \* four fields
      Delimiter \o CaptionLine(Sp, Stamp(ZZ, ZZ, <<"0", "5">>), Hi),  \* indented
      <<" ", " ">> }                                           \* blank

TranscriptTexts ==
    UNION {{Join(ls, <<NL>>) : ls \in [1..n -> LinePool]} : n \in 0..MaxLines}

\* What the transcript editor may answer (fix_transcript_text, lines 51-62).
FixedTexts ==
    { CaptionLine(Sp, Stamp(ZZ, ZZ, <<"0", "5">>), Hi \o <<".">>), <<"h", "d", "r">> }

\* The run starts in transcribe_to_files (line 124) or, for a job submitted
\* earlier, in retrieve_transcription (line 170).
RevInit ==
    /\ rev_pc \in {"submit", "retrieve"}
    /\ output_format \in {"srt", "txt", "both"}
    /\ fix_transcript \in BOOLEAN
    /\ job_status = ""
    /\ statuses_seen = <<>>
    /\ transcript_text = Absent
    /\ lines = <<>>
    /\ l_idx = 0
    /\ srt_entries = <<>>
    /\ counter = 0
    /\ emitted_from = <<>>
    /\ rev_files = [f \in {"srt", "txt"} |-> Absent]
    /\ rev_error = ""

RevIdle ==
    /\ rev_pc = "none"
    /\ output_format = "srt"
    /\ fix_transcript = FALSE
    /\ job_status = ""
    /\ statuses_seen = <<>>
    /\ transcript_text = Absent
    /\ lines = <<>>
    /\ l_idx = 0
    /\ srt_entries = <<>>
    /\ counter = 0
    /\ emitted_from = <<>>
    /\ rev_files = [f \in {"srt", "txt"} |-> Absent]
    /\ rev_error = ""

\* An exception leaves transcribe_to_files (lines 273-275 log it and exit(1)) or
\* retrieve_transcription.
RevRaise(exception) ==
    /\ rev_pc' = "raised"
    /\ rev_error' = exception

\* line 152: the wait goes on while the status is this one
KeepsWaiting(status) == status = "in_progress"

\* lines 138-147: the job is submitted
RevSubmit ==
    /\ rev_pc = "submit"
    /\ \E ok \in BOOLEAN :
          IF ok THEN rev_pc' = "submitted" /\ UNCHANGED rev_error
          ELSE RevRaise("SubmitError")
    /\ UNCHANGED <<output_format, fix_transcript, job_status, statuses_seen, transcript_text,
                   lines, l_idx, srt_entries, counter, emitted_from, rev_files>>
    /\ UNCHANGED <<webVars, alignVars, mixerVars>>

\* line 151: the first read of the job's status
RevFirstStatus ==
    /\ rev_pc = "submitted"
    /\ \E status \in JobStatuses :
          /\ job_status' = status
          /\ statuses_seen' = Append(statuses_seen, status)
    /\ rev_pc' = "wait"
    /\ UNCHANGED <<output_format, fix_transcript, transcript_text, lines, l_idx, srt_entries,
                   counter, emitted_from, rev_files, rev_error>>
    /\ UNCHANGED <<webVars, alignVars, mixerVars>>

\* lines 152-155: one turn of the wait loop
RevPollAgain ==
    /\ rev_pc = "wait"
    /\ KeepsWaiting(job_status)
    /\ Len(statuses_seen) < MaxPolls
    /\ \E status \in JobStatuses :
          /\ job_status' = status
          /\ statuses_seen' = Append(statuses_seen, status)
    /\ UNCHANGED <<rev_pc, output_format, fix_transcript, transcript_text, lines, l_idx,
                   srt_entries, counter, emitted_from, rev_files, rev_error>>
    /\ UNCHANGED <<webVars, alignVars, mixerVars>>

\* lines 157-160: after the loop, a transcribed job's transcript is fetched
RevFetch ==
    /\ rev_pc = "wait"
    /\ ~KeepsWaiting(job_status)
    /\ job_status = "transcribed"
    /\ \E fetched \in TranscriptTexts : transcript_text' = fetched
    /\ rev_pc' = "save"
    /\ UNCHANGED <<output_format, fix_transcript, job_status, statuses_seen, lines, l_idx,
                   srt_entries, counter, emitted_from, rev_files, rev_error>>
    /\ UNCHANGED <<webVars, alignVars, mixerVars>>

\* lines 161-163: after the loop, any other status raises "Transcription failed"
RevFailed ==
    /\ rev_pc = "wait"
    /\ ~KeepsWaiting(job_status)
    /\ job_status # "transcribed"
    /\ RevRaise("TranscriptionFailed")
    /\ UNCHANGED <<output_format, fix_transcript, job_status, statuses_seen, transcript_text,
                   lines, l_idx, srt_entries, counter, emitted_from, rev_files>>
    /\ UNCHANGED <<webVars, alignVars, mixerVars>>

\* lines 183-190: retrieve_transcription reads the job's status once and raises
\* "Cannot retrieve transcription" unless it is transcribed; it never waits
RevRetrieveStatus ==
    /\ rev_pc = "retrieve"
    /\ \E status \in JobStatuses :
          /\ job_status' = status
          /\ statuses_seen' = Append(statuses_seen, status)
          /\ IF status # "transcribed"
             THEN RevRaise("CannotRetrieve")
             ELSE rev_pc' = "retrieve_fetch" /\ UNCHANGED rev_error
    /\ UNCHANGED <<output_format, fix_transcript, transcript_text, lines, l_idx, srt_entries,
                   counter, emitted_from, rev_files>>
    /\ UNCHANGED <<webVars, alignVars, mixerVars>>

\* lines 192-198: the transcript of the finished job is fetched and handed to
\* save_transcript_files
RevRetrieveFetch ==
    /\ rev_pc = "retrieve_fetch"
    /\ \E fetched \in TranscriptTexts : transcript_text' = fetched
    /\ rev_pc' = "save"
    /\ UNCHANGED <<output_format, fix_transcript, job_status, statuses_seen, lines, l_idx,
                   srt_entries, counter, emitted_from, rev_files, rev_error>>
    /\ UNCHANGED <<webVars, alignVars, mixerVars>>

\* lines 215-223, 235: save_transcript_files starts; the transcript is fixed on request
RevSave ==
    /\ rev_pc = "save"
    /\ IF fix_transcript
       THEN \E fixed \in FixedTexts : transcript_text' = fixed
       ELSE UNCHANGED transcript_text
    /\ rev_pc' = IF output_format \in {"srt", "both"} THEN "create_srt" ELSE "format_txt"
    /\ UNCHANGED <<output_format, fix_transcript, job_status, statuses_seen, lines, l_idx,
                   srt_entries, counter, emitted_from, rev_files, rev_error>>
    /\ UNCHANGED <<webVars, alignVars, mixerVars>>

\* lines 90-95: create_srt_from_transcript is entered
CreateSrtBegin ==
    /\ rev_pc = "create_srt"
    /\ lines' = StrippedLines(transcript_text)
    /\ srt_entries' = <<>>
    /\ emitted_from' = <<>>
    /\ counter' = 1
    /\ l_idx' = 1
    /\ rev_pc' = "srt_loop"
    /\ UNCHANGED <<output_format, fix_transcript, job_status, statuses_seen, transcript_text,
                   rev_files, rev_error>>
    /\ UNCHANGED <<webVars, alignVars, mixerVars>>

\* lines 97-119: one iteration of the loop over the lines
CreateSrtLine ==
    /\ rev_pc = "srt_loop"
    /\ l_idx <= Len(lines)
    /\ LET did == SrtLine(lines[l_idx], counter) IN
       IF did.kind = "ValueError"
       THEN /\ RevRaise("ValueError")
            /\ UNCHANGED <<l_idx, srt_entries, counter, emitted_from>>
       ELSE /\ srt_entries' = IF did.kind = "entry" THEN Append(srt_entries, did.entry)
                              ELSE srt_entries
            /\ emitted_from' = IF did.kind = "entry" THEN Append(emitted_from, l_idx)
                               ELSE emitted_from
            /\ counter' = CounterAfter(counter, did.kind)
            /\ l_idx' = l_idx + 1
            /\ UNCHANGED <<rev_pc, rev_error>>
    /\ UNCHANGED <<output_format, fix_transcript, job_status, statuses_seen, transcript_text,
                   lines, rev_files>>
    /\ UNCHANGED <<webVars, alignVars, mixerVars>>

\* lines 121, 226-233: the entries are joined and written to the .srt file
CreateSrtReturn ==
    /\ rev_pc = "srt_loop"
    /\ l_idx > Len(lines)
    /\ rev_files' = [rev_files EXCEPT !["srt"] = Join(srt_entries, <<NL>>)]
    /\ rev_pc' = IF output_format \in {"txt", "both"} THEN "format_txt" ELSE "done"
    /\ UNCHANGED <<output_format, fix_transcript, job_status, statuses_seen, transcript_text,
                   lines, l_idx, srt_entries, counter, emitted_from, rev_error>>
    /\ UNCHANGED <<webVars, alignVars, mixerVars>>

\* lines 235-245: the readable transcript is formatted and written to the .txt file
FormatTxt ==
    /\ rev_pc = "format_txt"
    /\ rev_files' = [rev_files EXCEPT !["txt"] = format_transcript_txt(transcript_text)]
    /\ rev_pc' = "done"
    /\ UNCHANGED <<output_format, fix_transcript, job_status, statuses_seen, transcript_text,
                   lines, l_idx, srt_entries, counter, emitted_from, rev_error>>
    /\ UNCHANGED <<webVars, alignVars, mixerVars>>

-----------------------------------------------------------------------------
(* Claims about translate_audio *)

RegisteredPaths(run) == {run.temp_files[i] : i \in 1..Len(run.temp_files)}

\* C1 (as claimed): once a run has ended, in success or in failure, no temporary
\* artifact it registered is left on disk.
C1_NoTempArtifactAfterRun ==
    \A r \in Runs :
        Terminal(runs[r]) => \A p \in RegisteredPaths(runs[r]) : fs[p] # r

Active(run) == run.pc \notin {"uploaded", "done", "failed", "none"}

\* C2 (as claimed): two runs executing concurrently write disjoint sets of temporary
\* paths, and neither reads, overwrites, renames or removes an artifact of the other.
C2_ConcurrentRunsDisjointTempPaths ==
    \A r1 \in Runs : \A r2 \in Runs \ {r1} :
        (Active(runs[r1]) /\ Active(runs[r2]))
            => /\ runs[r1].created \cap runs[r2].created = {}
               /\ runs[r1].foreign = {}

Occurs(x, seq) == \E i \in 1..Len(seq) : seq[i] = x

IsPrefix(s, t) == Len(s) <= Len(t) /\ \A i \in 1..Len(s) : s[i] = t[i]

ErrorsFlashed(run) == Cardinality({i \in 1..Len(run.flashed) : run.flashed[i] = "error"})

\* The stages a run has completed when it is at pc.
StagesDoneAt(at) ==
    CASE at \in {"uploaded", "check_dir", "make_dir", "save_upload", "convert",
                 "convert_export"} -> 0
      [] at = "load_models" -> 1
      [] at = "diarize" -> 1
      [] at = "transcribe" -> 1
      [] at = "align" -> 2
      [] at = "translate" -> 3
      [] at = "synthesize" -> 4
      [] at \in {"save_srt", "cleanup", "cleanup_remove", "listdir", "rmdir"} -> 5
      [] at = "done" -> 6

StagesInOrder ==
    \A r \in Runs :
        /\ IsPrefix(runs[r].stages, StageOrder)
        /\ ~Terminal(runs[r]) => /\ Len(runs[r].stages) = StagesDoneAt(runs[r].pc)
                                 /\ ErrorsFlashed(runs[r]) = 0
        /\ runs[r].pc = "done" => runs[r].stages = StageOrder /\ ErrorsFlashed(runs[r]) = 0
        /\ runs[r].pc = "failed" => ErrorsFlashed(runs[r]) = 1

FailedIsAbsorbing ==
    \A r \in Runs : runs[r].pc = "failed" => runs'[r] = runs[r]

\* C10: within one run the stages complete in the order staged, transcribed, aligned,
\* translated, synthesized, cleaned, each at most once; a run that failed executes
\* nothing more, and has produced exactly one user-facing error.
C10_StagesInOrderFailedAbsorbing == []StagesInOrder /\ [][FailedIsAbsorbing]_vars

\* C10 witness: one run went through every stage, another failed at translation.
C10_Witness ==
    \E r1 \in Runs : \E r2 \in Runs :
        /\ runs[r1].pc = "done"
        /\ runs[r2].pc = "failed"
        /\ runs[r2].stages = <<"staged", "transcribed", "aligned">>

\* C12: when the alignment produces zero utterances, the run aborts at the alignment
\* stage with one error naming that stage, and the translation and synthesis
\* collaborators are never called for that run.
C12_EmptyAlignmentAbortsRun ==
    \A r \in Runs :
        runs[r].text_empty =>
            /\ runs[r].pc = "failed"
            /\ ErrorsFlashed(runs[r]) = 1
            /\ ~Occurs("translated", runs[r].stages)
            /\ ~Occurs("synthesized", runs[r].stages)

\* Every registered temporary file has had its removal attempted.
CleanupAttemptedAll(run) == run.c_idx = Len(run.temp_files) + 1

\* C13: during the cleanup a failure to remove a temporary file or the temporary
\* directory is logged and swallowed: the removal of every remaining registered file
\* is still attempted, and the outcome the run reports is unchanged (a run that
\* succeeded reports success, a failed run reports its one original error).
C13_CleanupErrorsSwallowed ==
    \A r \in Runs :
        LET run == runs[r] IN
        /\ run.cleanup_errors > 0 =>
              /\ run.pc \in {"cleanup", "cleanup_remove", "listdir", "rmdir", "done"}
              /\ ErrorsFlashed(run) = 0
        /\ run.pc = "cleanup" => run.c_idx \in 1..(Len(run.temp_files) + 1)
        /\ run.pc = "cleanup_remove" => run.c_idx \in 1..Len(run.temp_files)
        /\ run.pc \in {"listdir", "rmdir"} => CleanupAttemptedAll(run)
        /\ run.pc = "done" =>
              /\ CleanupAttemptedAll(run)
              /\ ErrorsFlashed(run) = 0
              /\ run.flashed = <<"success">>
        /\ run.pc = "failed" =>
              /\ run.cleanup_errors = 0
              /\ run.flashed = <<"error">>

\* C13 witness: the removal of the uploaded original failed, the converted file
\* after it was still removed, and the run reported success.
C13_Witness ==
    \E r \in Runs :
        /\ runs[r].pc = "done"
        /\ runs[r].cleanup_errors = 1
        /\ runs[r].flashed = <<"success">>
        /\ Len(runs[r].temp_files) = 2
        /\ fs[runs[r].temp_files[1]] # 0
        /\ fs[runs[r].temp_files[2]] = 0

-----------------------------------------------------------------------------
(* Claims about the alignment loop *)

Occurrences(x, seq) == Cardinality({i \in 1..Len(seq) : seq[i] = x})

\* T's start lies in [D.start, D.end) or T's end lies in (D.start, D.end].
InWindow(D, T) ==
    \/ T.start \in {x \in Times : D.start <= x /\ x < D.end}
    \/ T.end \in {x \in Times : D.start < x /\ x <= D.end}

\* C3: the text of T is in the utterance built for D iff T.start is in
\* [D.start, D.end) or T.end is in (D.start, D.end]; a T in several windows is in
\* each of them, once.
C3_MatchIffStartOrEndInWindow ==
    \A di \in 1..Len(matched) : \A ti \in 1..Len(result_segments) :
        LET D == diarization[di][1]
            T == result_segments[ti]
        IN /\ Occurs(T.text, matched[di]) <=> InWindow(D, T)
           /\ Occurrences(T.text, matched[di]) <= 1

\* C3 witness: the loop is over; one T is in two windows, one T ends exactly at a
\* D.start and one starts exactly at a D.end, and both are left out of that D.
C3_Witness ==
    /\ align_pc = "done"
    /\ Len(matched) = 2
    /\ \E ti \in 1..Len(result_segments) :
          /\ Occurs(result_segments[ti].text, matched[1])
          /\ Occurs(result_segments[ti].text, matched[2])
    /\ \E di \in 1..Len(matched) : \E ti \in 1..Len(result_segments) :
          /\ result_segments[ti].end = diarization[di][1].start
          /\ ~Occurs(result_segments[ti].text, matched[di])
    /\ \E di \in 1..Len(matched) : \E ti \in 1..Len(result_segments) :
          /\ result_segments[ti].start = diarization[di][1].end
          /\ ~Occurs(result_segments[ti].text, matched[di])

\* The texts of the transcript segments in D's window, in transcript order, each
\* followed by a space, from the last one back.
RECURSIVE SpacedTexts(_, _)
SpacedTexts(D, n) ==
    IF n = 0 THEN ""
    ELSE SpacedTexts(D, n - 1)
         \o (IF InWindow(D, result_segments[n]) THEN result_segments[n].text \o " " ELSE "")

HasMatch(D) == \E ti \in 1..Len(result_segments) : InWindow(D, result_segments[ti])

\* The utterances expected of the first n diarization segments.
RECURSIVE ExpectedUtterances(_)
ExpectedUtterances(n) ==
    IF n = 0 THEN <<>>
    ELSE LET D == diarization[n][1] IN
         ExpectedUtterances(n - 1)
         \o (IF HasMatch(D)
             THEN <<[speaker |-> diarization[n][2], spaced |-> SpacedTexts(D, Len(result_segments))]>>
             ELSE <<>>)

\* C4: there is one utterance per diarization segment with a match and none for the
\* others, in diarization order, its texts in transcript order joined by one space.
C4_OneUtterancePerMatchedSegmentInOrder ==
    LET expected == ExpectedUtterances(d_idx - 1) IN
    align_pc \in {"loop", "done"} =>
        /\ Len(segments) = Len(expected)
        /\ \A k \in 1..Len(segments) :
              segments[k] \o " " =
                  "Speaker " \o ToString(expected[k].speaker) \o ": " \o expected[k].spaced

\* C4 witness: the loop is over; a segment without a match was passed over, and a
\* later one has an utterance of two texts.
C4_Witness ==
    /\ align_pc = "done"
    /\ Len(matched) = 2
    /\ matched[1] = <<>>
    /\ Len(matched[2]) = 2
    /\ Len(segments) = 1

-----------------------------------------------------------------------------
(* Claims about generate_speech *)

\* The clips expected of the first n speaker lines: those of the lines whose speaker
\* has a voice, each in that voice, in line order.
RECURSIVE ExpectedMix(_)
ExpectedMix(n) ==
    IF n = 0 THEN <<>>
    ELSE LET speaker_num == speaker_lines[n][1] IN
         ExpectedMix(n - 1)
         \o (IF speaker_num < Len(voices)
             THEN <<[text |-> speaker_lines[n][2], voice |-> voices[speaker_num + 1]]>>
             ELSE <<>>)

LinesWithoutVoice(n) == {i \in 1..n : speaker_lines[i][1] >= Len(voices)}

\* C5: the exported mix is the concatenation, in line order, of the clips of the
\* lines whose speakerId < len(voices), each in voices[speakerId]; a line with
\* speakerId >= len(voices) is skipped with a warning and never ends the run; there
\* are at most as many clips as lines.
C5_MixIsClipsOfVoicedLinesInOrder ==
    /\ u_idx >= 1 =>
          /\ final_mix = ExpectedMix(u_idx - 1)
          /\ {warnings[i] : i \in 1..Len(warnings)} = LinesWithoutVoice(u_idx - 1)
          /\ Len(warnings) = Cardinality(LinesWithoutVoice(u_idx - 1))
          /\ Len(final_mix) <= Len(speaker_lines)
    /\ mixer_pc = "done" => /\ u_idx = Len(speaker_lines) + 1
                            /\ mixer_files[output] = ExpectedMix(Len(speaker_lines))
    /\ (mixer_pc = "exit1" /\ u_idx \in 1..Len(speaker_lines)) =>
          speaker_lines[u_idx][1] < Len(voices)

\* C5 witness: the mix was exported after a line without a voice was skipped between
\* two lines that have one.
C5_Witness ==
    /\ mixer_pc = "done"
    /\ Len(speaker_lines) = 3
    /\ warnings = <<2>>
    /\ Len(mixer_files[output]) = 2

\* The run failed inside the loop over the speaker lines (lines 74-89): an exception
\* was raised with the loop at a line, and not by the export after the loop.
FailedInLoop ==
    /\ mixer_error \notin {"", "ExportError"}
    /\ u_idx >= 1

\* Two file contents are the same: an absent file and a mix have different
\* shapes, so they are compared by their printed form.
SameContent(f, g) == ToString(f) = ToString(g)

\* C11 (as claimed): if synthesis of an utterance fails part-way through the loop of
\* generate_speech, the run ends with exit code 1 and the final mix is never
\* exported: the output path is neither created nor modified.
C11_FailedLoopNeverExports ==
    FailedInLoop =>
        /\ mixer_pc = "exit1"
        /\ u_idx <= Len(speaker_lines)
        /\ SameContent(mixer_files[output], Absent)

-----------------------------------------------------------------------------
(* Claims about transcribe_to_files and the subtitle codec *)

\* The wait for the job is over: a status was read and the loop was left.
\* The wait of transcribe_to_files is over (retrieve_transcription, which never
\* waits, is no part of the claim).
WaitOver ==
    /\ statuses_seen # <<>>
    /\ rev_pc \notin {"wait", "retrieve_fetch"}
    /\ rev_error # "CannotRetrieve"

\* C6 (as claimed): the wait ends only on a terminal status (succeeded: "transcribed",
\* or "failed"); the transcript is fetched only after succeeded, and failed gives the
\* transcription-failed error.
C6_WaitEndsOnlyOnTerminalStatus ==
    WaitOver =>
        /\ job_status \in {"transcribed", "failed"}
        /\ transcript_text # Absent => job_status = "transcribed"
        /\ job_status = "failed" => rev_error = "TranscriptionFailed"

AllDigits(str) == \A i \in 1..Len(str) : IsDigit(str[i])

\* A timestamp HH:MM:SS: two digits each, minutes and seconds below 60.
IsHMS(stamp) ==
    /\ Len(stamp) = 8
    /\ stamp[3] = ":" /\ stamp[6] = ":"
    /\ AllDigits(SubSeq(stamp, 1, 2)) /\ AllDigits(SubSeq(stamp, 4, 5))
    /\ AllDigits(SubSeq(stamp, 7, 8))
    /\ DigitsValue(SubSeq(stamp, 4, 5)) < 60 /\ DigitsValue(SubSeq(stamp, 7, 8)) < 60

\* A well-formed caption line: three fields, the second a timestamp HH:MM:SS.
WellFormedCaptionLine(line) ==
    LET parts == Split(Strip(line), Delimiter, -1) IN
    Len(parts) = 3 /\ IsHMS(Strip(parts[2]))

\* The readable blocks of the well-formed lines among raw, from the i-th on.
RECURSIVE ReadableBlocks(_, _)
ReadableBlocks(raw, i) ==
    IF i > Len(raw) THEN <<>>
    ELSE (IF WellFormedCaptionLine(raw[i])
          THEN LET parts == Split(Strip(raw[i]), Delimiter, -1) IN
               <<parts[1], parts[2], parts[3], <<>> >>
          ELSE <<>>)
         \o ReadableBlocks(raw, i + 1)

\* C7 (as claimed): no codec operation raises on malformed input; a line that is not
\* a well-formed caption line gives no caption entry and no readable block.
C7_CodecNeverRaisesDropsMalformed ==
    /\ rev_error # "ValueError"
    /\ \A k \in 1..Len(emitted_from) : WellFormedCaptionLine(lines[emitted_from[k]])
    /\ rev_files["txt"] # Absent =>
          rev_files["txt"] = Join(ReadableBlocks(Split(transcript_text, <<NL>>, -1), 1), <<NL>>)

\* The lines of a caption entry: its index, its times, its text.
EntryLines(entry) == Split(entry, <<NL>>, -1)

\* The records of a written caption file: they are separated by a blank line.
FileRecords(content) ==
    IF content = <<>> THEN <<>> ELSE Split(content, <<NL, NL>>, -1)

\* C8: the k-th caption record carries index k: 1, 2, ..., n without gap or repeat,
\* in input line order; a line that is passed over takes no index.
C8_IndexesDenseFromOne ==
    /\ \A k \in 1..Len(srt_entries) :
          /\ EntryLines(srt_entries[k])[1] = IntToStr(k)
          /\ emitted_from[k] \in 1..Len(lines)
          /\ \A j \in 1..(k - 1) : emitted_from[j] < emitted_from[k]
    /\ Len(emitted_from) = Len(srt_entries)
    /\ rev_files["srt"] # Absent =>
          LET records == FileRecords(rev_files["srt"]) IN
          /\ Len(records) = Len(srt_entries)
          /\ \A k \in 1..Len(records) : EntryLines(records[k])[1] = IntToStr(k)

\* C8 witness: the file was written with a record of index 1 that came from the
\* second line, the first line having been passed over.
C8_Witness ==
    /\ rev_files["srt"] # Absent
    /\ Len(lines) = 2
    /\ emitted_from = <<2>>
    /\ EntryLines(srt_entries[1])[1] = <<"1">>

\* A caption time HH:MM:SS,mmm: two digits each, a comma, three digits.
IsSrtTime(t) ==
    /\ Len(t) = 12
    /\ IsHMS(SubSeq(t, 1, 8))
    /\ t[9] = ","
    /\ AllDigits(SubSeq(t, 10, 12))

SrtMillis(t) ==
    1000 * (3600 * DigitsValue(SubSeq(t, 1, 2)) + 60 * DigitsValue(SubSeq(t, 4, 5))
            + DigitsValue(SubSeq(t, 7, 8)))
    + DigitsValue(SubSeq(t, 10, 12))

\* C9 (as claimed): an entry built from a line with a valid timestamp HH:MM:SS starts
\* at that time and ends 5.000 s later, both written HH:MM:SS,mmm.
C9_EndIsStartPlusFiveWellFormed ==
    \A k \in 1..Len(srt_entries) :
        LET stamp == Strip(Split(lines[emitted_from[k]], Delimiter, -1)[2])
            times == Split(EntryLines(srt_entries[k])[2], <<" ", "-", "-", ">", " ">>, -1)
        IN IsHMS(stamp) =>
              /\ Len(times) = 2
              /\ times[1] = stamp \o <<",", "0", "0", "0">>
              /\ IsSrtTime(times[2])
              /\ SrtMillis(times[2]) = SrtMillis(times[1]) + 5000

\* The lines of the transcript that are not blank, as format_transcript_txt reads
\* them (unstripped); the i-th is the i-th line create_srt_from_transcript reads.
NonBlankLines == SelectSeq(Split(transcript_text, <<NL>>, -1), LAMBDA l : Strip(l) # <<>>)

\* The readable block of one line: empty, or speaker, timestamp, content, blank.
BlockOf(line) == FormattedText(<<line>>, 1)

\* C14: format_transcript_txt and create_srt_from_transcript accept exactly the same
\* lines: a line yields a four-line readable block (speaker, timestamp, content,
\* blank) if and only if it yields a caption record, and then with the same speaker,
\* timestamp and content fields.
C14_ReadableBlockIffCaptionRecord ==
    (rev_pc = "done" /\ output_format = "both") =>
        /\ Len(NonBlankLines) = Len(lines)
        /\ \A i \in 1..Len(lines) :
              /\ BlockOf(NonBlankLines[i]) # <<>> <=> Occurs(i, emitted_from)
              /\ Occurs(i, emitted_from) =>
                    LET parts == Split(lines[i], Delimiter, -1) IN
                    BlockOf(NonBlankLines[i]) = <<parts[1], parts[2], parts[3], <<>> >>

-----------------------------------------------------------------------------
(* Specifications *)

\* One step of one request.
NextWeb ==
    \E r \in Runs :
        \/ GetUpload(r)
        \/ CheckTempDir(r)
        \/ MakeTempDir(r)
        \/ SaveUpload(r)
        \/ ConvertOrRename(r)
        \/ ConvertExport(r)
        \/ LoadModels(r)
        \/ Diarize(r)
        \/ Transcribe(r)
        \/ Align(r)
        \/ Translate(r)
        \/ Synthesize(r)
        \/ SaveTranscript(r)
        \/ CleanupFile(r)
        \/ CleanupRemove(r)
        \/ TempDirExists(r)
        \/ ListTempDir(r)
        \/ RemoveTempDir(r)

\* Requests served concurrently, each in its own thread.
Init == WebInit(TRUE) /\ AlignIdle /\ MixerIdle /\ RevIdle

Spec == Init /\ [][NextWeb]_vars

\* Requests served one after the other.
InitSeq == WebInit(FALSE) /\ AlignIdle /\ MixerIdle /\ RevIdle

SpecSeq == InitSeq /\ [][NextWeb]_vars

\* The alignment loop on concrete segments.
InitAlign == WebIdle /\ AlignInit /\ MixerIdle /\ RevIdle

NextAlign == AlignTrack \/ AlignJoin

SpecAlign == InitAlign /\ [][NextAlign]_vars

\* One run of generate_speech.
InitMixer == WebIdle /\ AlignIdle /\ MixerInit /\ RevIdle

NextMixer ==
    \/ MixerParse
    \/ MixerSetup
    \/ MixerSkip
    \/ MixerGenerate
    \/ MixerWriteTemp
    \/ MixerAppend
    \/ MixerExport

SpecMixer == InitMixer /\ [][NextMixer]_vars

\* One run of transcribe_to_files.
InitRev == WebIdle /\ AlignIdle /\ MixerIdle /\ RevInit

NextRev ==
    \/ RevSubmit
    \/ RevFirstStatus
    \/ RevPollAgain
    \/ RevFetch
    \/ RevFailed
    \/ RevRetrieveStatus
    \/ RevRetrieveFetch
    \/ RevSave
    \/ CreateSrtBegin
    \/ CreateSrtLine
    \/ CreateSrtReturn
    \/ FormatTxt

SpecRev == InitRev /\ [][NextRev]_vars

=============================================================================
